---------------------------- MODULE Spec2Model ----------------------------
(***************************************************************************)
(* Model of the Codeforces proxy of cf-nlp:                                *)
(*   - src/app/api/cf/route.ts : the GET handler of /api/cf, with its      *)
(*     module-level lastCallTs and the setTimeout based spacing,           *)
(*   - src/lib/cf/sign.ts      : signCfRequest (credential check) and the  *)
(*     typed client call cf(method, params).                               *)
(*                                                                         *)
(* JavaScript runs a handler without interruption from one await to the    *)
(* next, so every action below is one such run-to-completion segment.      *)
(* Time is the value Date.now() returns, in milliseconds.                  *)
(***************************************************************************)
EXTENDS Integers, Sequences, FiniteSets, TLC

\* ------------------------------------------------------------------ bounds
\* Number of requests (calls of cf or direct GETs) of one behaviour.
NReq == 3
\* Number of clock steps during which requests arrive.
MaxTicks == 2

\* ------------------------------------------------------- program constants
\* route.ts:14   const minIntervalMs = 2000;
minIntervalMs == 2000

\* Granularity of the modelled clock: half the minimum interval.
TickMs == minIntervalMs \div 2
\* Date.now() at the first request; any real epoch time is >= minIntervalMs,
\* so the first request always finds elapsed >= minIntervalMs.
StartClock == minIntervalMs
MaxClock == StartClock + MaxTicks * TickMs

Reqs == 1..NReq

\* The value searchParams.get('method') returns when the parameter is absent.
NullParam == "<null>"
\* process.env.X of a variable that is not set.
Undefined == "<undefined>"
\* The method names cf is called with: '' or the name of an upstream method.
MethodValues == {"", "user.info"}
EnvValues == {Undefined, "", "key"}

\* ------------------------------------------------------------- responses
NoBody == [kind |-> "none", status |-> "", comment |-> "", result |-> "", error |-> ""]
\* JSON.stringify({ error: message })
ErrorBody(message) ==
  [kind |-> "json", status |-> "", comment |-> "", result |-> "", error |-> message]
\* The upstream envelope {status, result | comment}
Envelope(status, comment, result) ==
  [kind |-> "json", status |-> status, comment |-> comment, result |-> result, error |-> ""]
\* A body that JSON.parse rejects (an HTML error page of the upstream)
NotJson == [kind |-> "text", status |-> "", comment |-> "", result |-> "", error |-> ""]
NoResponse == [status |-> 0, body |-> NoBody]

\* What the upstream can answer to a dispatched fetch.
UpstreamResponses ==
  { [status |-> 200, body |-> Envelope("OK", "", "result")],
    [status |-> 200, body |-> Envelope("FAILED", "handle: not found", "")],
    [status |-> 400, body |-> Envelope("FAILED", "handle: not found", "")],
    [status |-> 503, body |-> NotJson] }
\* The messages a rejected fetch carries (undici's TypeError).
FetchErrors == {"fetch failed"}

NoError == "<none>"

VARIABLES
  env,         \* process.env: [CF_KEY, CF_SECRET]
  clock,       \* Date.now()
  lastCallTs,  \* route.ts:4
  pc,          \* per request: where its client call and its handler stand
  method,      \* per request: the method value of its query
  wakeAt,      \* per request: when its pending setTimeout is due (0: none)
  dispatchLog, \* Date.now() at the start of the last two upstream fetches
  res,         \* per request: the Response the handler returned
  out,         \* per request: what cf returned or the message it threw
  thrown,      \* per request: message of the exception caught at route.ts:29
  arrivals,    \* request ids in the order their handler started
  dispatched,  \* request ids in the order their upstream fetch started
  proxyReqs,   \* per request: fetches of /api/cf made for it
  fetches,     \* per request: upstream fetches made for it
  signs,       \* per request: calls of signCfRequest made for it
  responses,   \* per request: Responses returned for it
  input,       \* the arguments of the library function under study
  output       \* what that function returned

\* The state of the proxy and of its clients.
gateVars == <<env, clock, lastCallTs, pc, method, wakeAt, dispatchLog, res, out,
              thrown, arrivals, dispatched, proxyReqs, fetches, signs, responses>>
\* The state of a call of signCfRequest or of an aggregation function.
pureVars == <<input, output>>

vars == <<gateVars, pureVars>>

\* No library function is under study.
NoCall == <<>>

\* route.ts:4 and the clients before any request.
GateInit ==
  /\ env \in [CF_KEY : EnvValues, CF_SECRET : EnvValues]
  /\ clock = StartClock
  /\ lastCallTs = 0
  /\ pc = [r \in Reqs |-> "idle"]
  /\ method = [r \in Reqs |-> NullParam]
  /\ wakeAt = [r \in Reqs |-> 0]
  /\ dispatchLog = <<>>
  /\ res = [r \in Reqs |-> NoResponse]
  /\ out = [r \in Reqs |-> ""]
  /\ thrown = [r \in Reqs |-> NoError]
  /\ arrivals = <<>>
  /\ dispatched = <<>>
  /\ proxyReqs = [r \in Reqs |-> 0]
  /\ fetches = [r \in Reqs |-> 0]
  /\ signs = [r \in Reqs |-> 0]
  /\ responses = [r \in Reqs |-> 0]

Init ==
  /\ GateInit
  /\ input = NoCall
  /\ output = NoCall


\* ------------------------------------------------------------ sign.ts
\* `!v` of an environment variable: unset or the empty string.
Falsy(v) == v \in {Undefined, ""}

\* sign.ts:8   if (!apiKey || !apiSecret)
CredentialsMissing == Falsy(env.CF_KEY) \/ Falsy(env.CF_SECRET)

\* Mutant of signCfRequest: only the key is checked.
signCfRequestKeyOnly(methodName) ==
  IF Falsy(env.CF_KEY)
  THEN [threw |-> TRUE, message |-> "Missing CF_KEY/CF_SECRET", url |-> ""]
  ELSE [threw |-> FALSE, message |-> NoError, url |-> methodName]

\* sign.ts:5-35: throws before any URL is built when a credential is missing,
\* otherwise returns the signed URL of the method.
signCfRequest(methodName) ==
  IF CredentialsMissing
  THEN [threw |-> TRUE, message |-> "Missing CF_KEY/CF_SECRET", url |-> ""]
  ELSE [threw |-> FALSE, message |-> NoError, url |-> methodName]

\* `CF error: ${res.status}`
HttpErrorMessage(status) ==
  CASE status = 400 -> "CF error: 400"
    [] status = 500 -> "CF error: 500"
    [] status = 503 -> "CF error: 503"
    [] OTHER -> "CF error: other"

\* res.ok
ResOk(status) == status >= 200 /\ status <= 299

\* sign.ts:45-48: what cf does with the proxy's response.
CfOutcome(response) ==
  IF ~ResOk(response.status)
  THEN [threw |-> TRUE, value |-> HttpErrorMessage(response.status)]
  ELSE IF response.body.kind # "json"
  THEN [threw |-> TRUE, value |-> "Unexpected token in JSON"]
  ELSE IF response.body.status # "OK"
  THEN [threw |-> TRUE,
        value |-> IF response.body.comment # "" THEN response.body.comment
                  ELSE "CF API failed"]
  ELSE [threw |-> FALSE, value |-> response.body.result]

\* sign.ts:38-44: cf builds the URL and fetches /api/cf once.  Requests are
\* made in the order of their numbers.
CfCall(r, m) ==
  /\ pc[r] = "idle"
  /\ \A q \in Reqs : q < r => pc[q] # "idle"
  /\ method' = [method EXCEPT ![r] = m]
  /\ proxyReqs' = [proxyReqs EXCEPT ![r] = @ + 1]
  /\ pc' = [pc EXCEPT ![r] = "sent"]
  /\ UNCHANGED <<env, clock, lastCallTs, wakeAt, dispatchLog, res, out, thrown,
                 arrivals, dispatched, fetches, signs, responses>>
  /\ UNCHANGED pureVars

\* A GET /api/cf made without cf, with no method parameter in its query
\* (route.ts:7 reads null).
DirectGet(r) ==
  /\ pc[r] = "idle"
  /\ \A q \in Reqs : q < r => pc[q] # "idle"
  /\ method' = [method EXCEPT ![r] = NullParam]
  /\ proxyReqs' = [proxyReqs EXCEPT ![r] = @ + 1]
  /\ pc' = [pc EXCEPT ![r] = "sent"]
  /\ UNCHANGED <<env, clock, lastCallTs, wakeAt, dispatchLog, res, out, thrown,
                 arrivals, dispatched, fetches, signs, responses>>
  /\ UNCHANGED pureVars

\* ----------------------------------------------------------- route.ts
\* Mutant of MissingMethod: the test is `method === ''`, which the null of an
\* absent parameter passes.
MissingMethodEmptyOnly(m) == m = ""

\* route.ts:8   if (!method)
MissingMethod(m) == m \in {NullParam, ""}

\* route.ts:9
MissingMethodResponse == [status |-> 400, body |-> ErrorBody("Missing method")]

\* Mutant of MustSuspend: the test is `elapsed <= minIntervalMs`.
MustSuspendOrEqual(elapsed) == elapsed <= minIntervalMs

\* Mutant of MustSuspend: the handler never waits.
MustSuspendNever(elapsed) == FALSE

\* route.ts:15   if (elapsed < minIntervalMs)
MustSuspend(elapsed) == elapsed < minIntervalMs

\* Mutant of CatchResponse: the caught message is replaced by a fixed text.
CatchResponseGeneric(message) ==
  [status |-> 500, body |-> ErrorBody("Internal Server Error")]

\* route.ts:29-31   catch (e) { return new Response({error: e.message}, 500) }
CatchResponse(message) == [status |-> 500, body |-> ErrorBody(message)]

\* route.ts:28   new Response(cfRes.body, { status: cfRes.status, ... })
ProxyResponse(cfRes) == [status |-> cfRes.status, body |-> cfRes.body]

\* The last two entries of a log.
LastTwo(log) == IF Len(log) > 2 THEN Tail(log) ELSE log

\* The handler returns `response` (route.ts:9, 28, 30), which resolves the
\* fetch cf awaits (sign.ts:44); cf's continuation (sign.ts:45-48) reads
\* nothing but the response and is taken in the same step.
Respond(r, response) ==
  LET o == CfOutcome(response) IN
  /\ res' = [res EXCEPT ![r] = response]
  /\ responses' = [responses EXCEPT ![r] = @ + 1]
  /\ IF method[r] = NullParam
     THEN /\ pc' = [pc EXCEPT ![r] = "responded"]
          /\ out' = out
     ELSE /\ pc' = [pc EXCEPT ![r] = IF o.threw THEN "threw" ELSE "returned"]
          /\ out' = [out EXCEPT ![r] = o.value]

\* route.ts:19-26: build the params, sign, and start the upstream fetch; a
\* throw of signCfRequest is caught at route.ts:29 and answered at once.
SignAndFetch(r) ==
  LET s == signCfRequest(method[r]) IN
  /\ signs' = [signs EXCEPT ![r] = @ + 1]
  /\ IF s.threw
     THEN /\ thrown' = [thrown EXCEPT ![r] = s.message]
          /\ Respond(r, CatchResponse(s.message))
          /\ UNCHANGED <<dispatchLog, dispatched, fetches>>
     ELSE /\ dispatchLog' = LastTwo(Append(dispatchLog, clock))
          /\ dispatched' = Append(dispatched, r)
          /\ fetches' = [fetches EXCEPT ![r] = @ + 1]
          /\ pc' = [pc EXCEPT ![r] = "fetching"]
          /\ UNCHANGED <<thrown, res, out, responses>>

\* route.ts:6-26: the handler from its start to its first await (the timer of
\* line 16, the fetch of line 26) or to its return (line 9, line 30).
\* Requests carry the numbers of their arrival at the handler, and arrive
\* while the clock is at most MaxClock.
GET(r) ==
  /\ pc[r] = "sent"
  /\ \A q \in Reqs : q < r => pc[q] # "sent"
  /\ clock <= MaxClock
  /\ arrivals' = Append(arrivals, r)
  /\ IF MissingMethod(method[r])
     THEN /\ Respond(r, MissingMethodResponse)
          /\ UNCHANGED <<wakeAt, dispatchLog, dispatched, fetches, signs, thrown>>
     ELSE LET now == clock
              elapsed == now - lastCallTs
          IN  IF MustSuspend(elapsed)
              THEN /\ wakeAt' = [wakeAt EXCEPT ![r] = clock + (minIntervalMs - elapsed)]
                   /\ pc' = [pc EXCEPT ![r] = "sleeping"]
                   /\ UNCHANGED <<dispatchLog, dispatched, fetches, signs,
                                  thrown, res, out, responses>>
              ELSE /\ SignAndFetch(r)
                   /\ UNCHANGED wakeAt
  /\ UNCHANGED <<env, clock, lastCallTs, method, proxyReqs>>
  /\ UNCHANGED pureVars

\* Mutant of Wake: the handler ends when its timer fires, without a response.
WakeDrops(r) ==
  /\ pc[r] = "sleeping"
  /\ clock >= wakeAt[r]
  /\ wakeAt' = [wakeAt EXCEPT ![r] = 0]
  /\ pc' = [pc EXCEPT ![r] = "dropped"]
  /\ UNCHANGED <<env, clock, lastCallTs, method, dispatchLog, res, out, thrown,
                 arrivals, dispatched, proxyReqs, fetches, signs, responses>>
  /\ UNCHANGED pureVars

\* route.ts:16-26: the timer of line 16 fires and the handler goes on to sign
\* and fetch.  Node runs due timers in the order of their due times; timers
\* due at the same time were set with different delays, and their order is
\* not guaranteed.
Wake(r) ==
  /\ pc[r] = "sleeping"
  /\ clock >= wakeAt[r]
  /\ \A q \in Reqs : pc[q] = "sleeping" => wakeAt[q] >= wakeAt[r]
  /\ wakeAt' = [wakeAt EXCEPT ![r] = 0]
  /\ SignAndFetch(r)
  /\ UNCHANGED <<env, clock, lastCallTs, method, arrivals, proxyReqs>>
  /\ UNCHANGED pureVars

\* route.ts:26-28: the upstream fetch resolves with cfRes.
FetchResolve(r, cfRes) ==
  /\ pc[r] = "fetching"
  /\ lastCallTs' = clock
  /\ Respond(r, ProxyResponse(cfRes))
  /\ UNCHANGED <<env, clock, method, wakeAt, dispatchLog, thrown, arrivals,
                 dispatched, proxyReqs, fetches, signs>>
  /\ UNCHANGED pureVars

\* Mutant of FetchReject: a rejected fetch is tried again.
FetchRejectRetry(r, message) ==
  /\ pc[r] = "fetching"
  /\ fetches[r] < 3
  /\ fetches' = [fetches EXCEPT ![r] = @ + 1]
  /\ dispatchLog' = LastTwo(Append(dispatchLog, clock))
  /\ UNCHANGED <<env, clock, lastCallTs, pc, method, wakeAt, res, out, thrown,
                 arrivals, dispatched, proxyReqs, signs, responses>>
  /\ UNCHANGED pureVars

\* route.ts:26, 29-31: the upstream fetch rejects; line 27 is skipped.
FetchReject(r, message) ==
  /\ pc[r] = "fetching"
  /\ thrown' = [thrown EXCEPT ![r] = message]
  /\ Respond(r, CatchResponse(message))
  /\ UNCHANGED <<env, clock, lastCallTs, method, wakeAt, dispatchLog, arrivals,
                 dispatched, proxyReqs, fetches, signs>>
  /\ UNCHANGED pureVars

\* Time passes.  The clock is followed up to MaxClock, and further as long
\* as a timer is still to come due.
Tick ==
  /\ \/ clock < MaxClock
     \/ \E r \in Reqs : pc[r] = "sleeping" /\ wakeAt[r] > clock
  /\ clock' = clock + TickMs
  /\ UNCHANGED <<env, lastCallTs, pc, method, wakeAt, dispatchLog, res, out, thrown,
                 arrivals, dispatched, proxyReqs, fetches, signs, responses>>
  /\ UNCHANGED pureVars

Next ==
  \/ \E r \in Reqs : \E m \in MethodValues : CfCall(r, m)
  \/ \E r \in Reqs : DirectGet(r)
  \/ \E r \in Reqs : GET(r)
  \/ \E r \in Reqs : Wake(r)
  \/ \E r \in Reqs : \E cfRes \in UpstreamResponses : FetchResolve(r, cfRes)
  \/ \E r \in Reqs : \E e \in FetchErrors : FetchReject(r, e)
  \/ Tick

Spec == Init /\ [][Next]_vars

\* Timers fire, every fetch settles and time passes.
FairSpec ==
  /\ Spec
  /\ WF_vars(Tick)
  /\ \A r \in Reqs : WF_vars(Wake(r))
  /\ \A r \in Reqs :
       WF_vars((\E cfRes \in UpstreamResponses : FetchResolve(r, cfRes))
               \/ (\E e \in FetchErrors : FetchReject(r, e)))

\* The handler starts for request r while no other request is inside it.
SeqGET(r) ==
  /\ \A q \in Reqs \ {r} : pc[q] \notin {"sleeping", "fetching"}
  /\ GET(r)

\* Strictly sequential requests whose upstream fetches all resolve.
SeqNext ==
  \/ \E r \in Reqs : \E m \in MethodValues : CfCall(r, m)
  \/ \E r \in Reqs : DirectGet(r)
  \/ \E r \in Reqs : SeqGET(r)
  \/ \E r \in Reqs : Wake(r)
  \/ \E r \in Reqs : \E cfRes \in UpstreamResponses : FetchResolve(r, cfRes)
  \/ Tick

SeqSpec == Init /\ [][SeqNext]_vars

\* ------------------------------------------------ sign.ts: the signed URL
\* A string is a sequence of atoms: a character, or a text that nothing
\* looks into.  E_ACUTE is U+00E9; "e" followed by ACUTE (U+0301, combining)
\* is the same letter, decomposed.
E_ACUTE == "U+00E9"
ACUTE == "U+0301"

\* Bound: the number of parameters a caller passes.
MaxParams == 2

\* The atoms in the order of the collation.
AtomOrder == <<" ", "0", "1", "7", "8", "a", "apiKey", "e", ACUTE, "handle", "key",
               "time", E_ACUTE>>
Weight(atom) == CHOOSE i \in 1..Len(AtomOrder) : AtomOrder[i] = atom

\* Unicode canonical decomposition (NFD) of a string.
RECURSIVE Canon(_)
Canon(str) ==
  IF str = <<>> THEN <<>>
  ELSE (IF Head(str) = E_ACUTE THEN <<"e", ACUTE>> ELSE <<Head(str)>>)
       \o Canon(Tail(str))

RECURSIVE LexCompare(_, _)
LexCompare(a, b) ==
  IF a = <<>> THEN (IF b = <<>> THEN 0 ELSE -1)
  ELSE IF b = <<>> THEN 1
  ELSE IF Weight(Head(a)) < Weight(Head(b)) THEN -1
  ELSE IF Weight(Head(a)) > Weight(Head(b)) THEN 1
  ELSE LexCompare(Tail(a), Tail(b))

\* String.prototype.localeCompare (sign.ts:23-24): a total preorder that
\* answers 0 for canonically equivalent strings (ECMA-262), equal or not.
localeCompare(a, b) == LexCompare(Canon(a), Canon(b))

\* sign.ts:22-25: the comparator of the sort, on entries <<key, value>>.
CompareEntries(x, y) ==
  IF x[1] = y[1] THEN localeCompare(x[2], y[2]) ELSE localeCompare(x[1], y[1])

\* Array.prototype.sort with that comparator (sign.ts:22): the sort is
\* stable, so an entry goes after the entries that compare lower and after
\* the earlier entries that compare equal.
SortEntries(entries) ==
  LET n == Len(entries)
      rank(i) == 1 + Cardinality({j \in 1..n :
                       \/ CompareEntries(entries[j], entries[i]) < 0
                       \/ CompareEntries(entries[j], entries[i]) = 0 /\ j < i})
  IN  [p \in 1..n |-> entries[CHOOSE i \in 1..n : rank(i) = p]]

\* A JavaScript value is <<"undefined">>, <<"string", s>>, <<"number", n>>
\* or <<"boolean", b>>.
JsUndefined == <<"undefined">>

\* The decimal digits of a natural number.
RECURSIVE Digits(_)
Digits(n) ==
  LET d == <<"0", "1", "2", "3", "4", "5", "6", "7", "8", "9">> IN
  IF n < 10 THEN <<d[n + 1]>> ELSE Digits(n \div 10) \o <<d[(n % 10) + 1]>>

\* String(v)   (sign.ts:16, 19)
JsString(v) ==
  CASE v[1] = "string" -> v[2]
    [] v[1] = "number" -> Digits(v[2])
    [] v[1] = "boolean" -> IF v[2] THEN <<"true">> ELSE <<"false">>
    [] OTHER -> <<"undefined">>

\* encodeURIComponent (sign.ts:26): the UTF-8 bytes of every character that
\* is not unreserved, percent-encoded.
EncodeAtom(atom) ==
  CASE atom = " " -> "%20"
    [] atom = E_ACUTE -> "%C3%A9"
    [] atom = ACUTE -> "%CC%81"
    [] OTHER -> atom
encodeURIComponent(str) == [i \in 1..Len(str) |-> EncodeAtom(str[i])]

\* obj[key] = value on a list of entries in property order: an existing key
\* keeps its place, a new one goes last.
SetProperty(entries, key, value) ==
  IF \E i \in 1..Len(entries) : entries[i][1] = key
  THEN [i \in 1..Len(entries) |->
          IF entries[i][1] = key THEN <<key, value>> ELSE entries[i]]
  ELSE Append(entries, <<key, value>>)

\* sign.ts:14-16: the entries whose value is not undefined, stringified.
RECURSIVE DefinedEntries(_)
DefinedEntries(entries) ==
  IF entries = <<>> THEN <<>>
  ELSE (IF Head(entries)[2] = JsUndefined THEN <<>>
        ELSE <<(<<Head(entries)[1], JsString(Head(entries)[2])>>)>>)
       \o DefinedEntries(Tail(entries))

\* Mutant of BaseParams: the caller's parameters are spread last and win.
BaseParamsCallerWins(params, apiKey, nowMs) ==
  LET own == DefinedEntries(params)
      has(k) == \E i \in 1..Len(own) : own[i][1] = k
      a == IF has(<<"apiKey">>) THEN own ELSE Append(own, <<(<<"apiKey">>), apiKey>>)
  IN  IF has(<<"time">>) THEN a
      ELSE Append(a, <<(<<"time">>), Digits(nowMs \div 1000)>>)

\* sign.ts:12-20: the caller's parameters, then apiKey, then time.
BaseParams(params, apiKey, nowMs) ==
  SetProperty(SetProperty(DefinedEntries(params), <<"apiKey">>, apiKey),
              <<"time">>, Digits(nowMs \div 1000))

\* array.map(f).join(sep) of strings
RECURSIVE Join(_, _)
Join(strs, sep) ==
  IF strs = <<>> THEN <<>>
  ELSE IF Len(strs) = 1 THEN strs[1]
  ELSE strs[1] \o sep \o Join(Tail(strs), sep)

\* sign.ts:26
QueryOf(sorted) ==
  Join([i \in 1..Len(sorted) |->
          sorted[i][1] \o <<"=">> \o encodeURIComponent(sorted[i][2])], <<"&">>)

\* sign.ts:29
SigBaseOf(rand, methodName, sorted, apiSecret) ==
  rand \o <<"/">> \o methodName \o <<"?">>
  \o Join([i \in 1..Len(sorted) |-> sorted[i][1] \o <<"=">> \o sorted[i][2]], <<"&">>)
  \o <<"#">> \o apiSecret

\* sign.ts:30: the hex digest of SHA-512, a function of the text that is
\* taken to have no collisions.
Sha512Hex(text) == <<"sha512", text>>

\* sign.ts:12-34 with the credentials present: the sorted entries, the query,
\* the signature base and the URL of one signing.
SignedRequest(methodName, params, apiKey, apiSecret, nowMs, rand) ==
  LET sorted == SortEntries(BaseParams(params, apiKey, nowMs))
      query == QueryOf(sorted)
      sigBase == SigBaseOf(rand, methodName, sorted, apiSecret)
      apiSig == [rand |-> rand, hash |-> Sha512Hex(sigBase)]
  IN  [sorted |-> sorted, query |-> query, sigBase |-> sigBase, apiSig |-> apiSig,
       url |-> [base |-> <<"https://codeforces.com/api/">> \o methodName,
                query |-> query, apiSig |-> apiSig]]

\* The parameter names and values of the callers under study.
ParamKeys == {<<"handle">>, <<E_ACUTE>>, <<"e", ACUTE>>, <<"apiKey">>, <<"time">>}
ParamValues == {JsUndefined, <<"string", <<"a", " ", "a">> >>, <<"number", 7>>}
\* crypto.randomBytes(3).toString('hex')   (sign.ts:28)
Nonces == {<<"0a0a0a">>, <<"ffffff">>}
SignApiKey == <<"key">>
SignApiSecret == <<"secret">>
\* Date.now() of the first signing, and the step of the clock: half a second.
SignStartMs == 7 * 1000 + 500
SignStepMs == 1000 \div 2

\* The sequences of at most n entries with distinct keys.
RECURSIVE ParamLists(_)
ParamLists(n) ==
  IF n = 0 THEN {<<>>}
  ELSE LET shorter == ParamLists(n - 1) IN
       shorter \cup
       {Append(l, <<k, v>>) : l \in {x \in shorter : Len(x) = n - 1},
                              k \in ParamKeys, v \in ParamValues}

DistinctKeys(entries) ==
  \A i, j \in 1..Len(entries) : i # j => entries[i][1] # entries[j][1]

\* The orders in which the same object can have been built.
Reorderings(entries) ==
  {[i \in 1..Len(entries) |-> entries[f[i]]] :
     f \in {g \in [1..Len(entries) -> 1..Len(entries)] :
              \A i, j \in 1..Len(entries) : i # j => g[i] # g[j]}}

\* A caller holds a method name and a parameter object; input also holds
\* Date.now().
SignInit ==
  /\ GateInit
  /\ env = [CF_KEY |-> "key", CF_SECRET |-> "key"]
  /\ input \in {[methodName |-> <<"user.info">>, params |-> l, nowMs |-> SignStartMs] :
                  l \in {x \in ParamLists(MaxParams) : DistinctKeys(x)}}
  /\ output = <<>>

\* signCfRequest(methodName, params) is called; at most two signings are
\* compared.
SignCall(rand) ==
  /\ Len(output) < 2
  /\ output' = Append(output,
       [params |-> input.params, methodName |-> input.methodName,
        nowMs |-> input.nowMs, rand |-> rand,
        signed |-> SignedRequest(input.methodName, input.params, SignApiKey,
                                 SignApiSecret, input.nowMs, rand)])
  /\ UNCHANGED <<input, gateVars>>

\* Between the two signings the caller builds the same object again, with
\* its keys inserted in another order.
Reinsert(params) ==
  /\ Len(output) = 1
  /\ params \in Reorderings(input.params) \ {input.params}
  /\ input.params = output[1].params
  /\ input' = [input EXCEPT !.params = params]
  /\ UNCHANGED <<output, gateVars>>

\* Between the two signings half a second passes.
SignTick ==
  /\ Len(output) = 1
  /\ input.nowMs = SignStartMs
  /\ input' = [input EXCEPT !.nowMs = @ + SignStepMs]
  /\ UNCHANGED <<output, gateVars>>

SignNext ==
  \/ \E rand \in Nonces : SignCall(rand)
  \/ \E params \in Reorderings(input.params) : Reinsert(params)
  \/ SignTick

SignSpec == SignInit /\ [][SignNext]_vars

\* ------------------------------- aggregate.ts: submissions (user.status)
\* Bound: the number of submissions user.status returns.
MaxSubs == 3

JsNull == <<"null">>
JsNumber(n) == <<"number", n>>

\* The submissions of the handle under study: two problems of contest 1,
\* judged OK or not, with or without a rating, and one submission that has
\* no verdict and no language yet.
Problems == {<<1, "A">>, <<1, "B">>}
Ratings == {JsUndefined, JsNumber(1099), JsNumber(2000)}
Submission(contestId, index, verdict, rating, lang) ==
  [problem |-> [contestId |-> contestId, index |-> index, rating |-> rating],
   verdict |-> verdict, programmingLanguage |-> lang]
Submissions ==
  {Submission(p[1], p[2], v, r, "GNU C++17") :
     p \in Problems, v \in {"OK", "WRONG_ANSWER"}, r \in Ratings}
  \cup {Submission(1, "A", Undefined, JsUndefined, Undefined)}

\* obj[key] = (obj[key] || 0) + 1   (aggregate.ts:117, 119)
Increment(obj, key) ==
  [k \in (DOMAIN obj) \cup {key} |->
     IF k = key THEN (IF key \in DOMAIN obj THEN obj[key] ELSE 0) + 1 ELSE obj[k]]

\* aggregate.ts:112-114: the accumulators before the loop.
OverviewStart == [verdictCounts |-> <<>>, languages |-> <<>>, accepted |-> 0]

\* aggregate.ts:115-121: the loop over the submissions.
RECURSIVE OverviewLoop(_, _)
OverviewLoop(subs, acc) ==
  IF subs = <<>> THEN acc
  ELSE LET sub == Head(subs)
           v == IF Falsy(sub.verdict) THEN "UNKNOWN" ELSE sub.verdict
           lang == IF Falsy(sub.programmingLanguage) THEN "Unknown"
                   ELSE sub.programmingLanguage
       IN  OverviewLoop(Tail(subs),
             [verdictCounts |-> Increment(acc.verdictCounts, v),
              languages |-> Increment(acc.languages, lang),
              accepted |-> IF v = "OK" THEN acc.accepted + 1 ELSE acc.accepted])

\* fetchSubmissionOverview, after the await of cf   (aggregate.ts:110-123)
SubmissionOverview(subs) ==
  LET acc == OverviewLoop(subs, OverviewStart) IN
  [total |-> Len(subs), verdictCounts |-> acc.verdictCounts,
   languages |-> acc.languages, accepted |-> acc.accepted]

\* `${s.problem.contestId}-${s.problem.index}` (aggregate.ts:130, 138): the
\* contest id holds no "-", so the text determines the pair and the pair
\* stands for it.
ProblemKey(sub) == <<sub.problem.contestId, sub.problem.index>>

\* aggregate.ts:128-133: the keys marked true in solved by the first pass.
SolvedKeys(subs) ==
  {ProblemKey(subs[i]) : i \in {j \in 1..Len(subs) : subs[j].verdict = "OK"}}

\* Mutant of Counted: the second pass does not look at the verdict.
CountedAnyVerdict(sub, solved) == ProblemKey(sub) \in solved

\* aggregate.ts:139: the submissions the second pass does not skip.
Counted(sub, solved) == ProblemKey(sub) \in solved /\ sub.verdict = "OK"

\* aggregate.ts:144-148: the bucket of a rating.
BucketOf(r) ==
  IF r < 1100 THEN "lt1100"
  ELSE IF r < 1400 THEN "1100_1399"
  ELSE IF r < 1700 THEN "1400_1699"
  ELSE IF r < 2000 THEN "1700_1999"
  ELSE "ge2000"

BucketNames == {"lt1100", "1100_1399", "1400_1699", "1700_1999", "ge2000"}

\* Mutant of DifficultyStart: the highest rating starts at 0.
DifficultyStartZero ==
  [totalSolved |-> 0, highestSolvedRating |-> JsNumber(0),
   buckets |-> [b \in BucketNames |-> 0]]

\* aggregate.ts:134-136: the accumulators before the second pass.
DifficultyStart ==
  [totalSolved |-> 0, highestSolvedRating |-> JsNull,
   buckets |-> [b \in BucketNames |-> 0]]

Max(a, b) == IF a >= b THEN a ELSE b
Min(a, b) == IF a <= b THEN a ELSE b

\* aggregate.ts:137-150: the second pass.
RECURSIVE DifficultyLoop(_, _, _)
DifficultyLoop(subs, solved, acc) ==
  IF subs = <<>> THEN acc
  ELSE LET sub == Head(subs)
           r == sub.problem.rating
           step ==
             IF ~Counted(sub, solved) THEN acc
             ELSE IF r = JsUndefined
                  THEN [acc EXCEPT !.totalSolved = @ + 1]
                  ELSE [totalSolved |-> acc.totalSolved + 1,
                        highestSolvedRating |->
                          JsNumber(Max(IF acc.highestSolvedRating = JsNull THEN r[2]
                                       ELSE acc.highestSolvedRating[2], r[2])),
                        buckets |-> [acc.buckets EXCEPT ![BucketOf(r[2])] = @ + 1]]
       IN  DifficultyLoop(Tail(subs), solved, step)

\* fetchProblemDifficulty, after the await of cf   (aggregate.ts:125-152)
ProblemDifficulty(subs) == DifficultyLoop(subs, SolvedKeys(subs), DifficultyStart)

\* input is the list user.status answers with; output holds what the two
\* functions returned.
AggInit ==
  /\ GateInit
  /\ env = [CF_KEY |-> "key", CF_SECRET |-> "key"]
  /\ input = <<>>
  /\ output = [overview |-> NoCall, difficulty |-> NoCall]

\* One more submission is on the handle's record before the page loads.
Submit(sub) ==
  /\ Len(input) < MaxSubs
  /\ output = [overview |-> NoCall, difficulty |-> NoCall]
  /\ input' = Append(input, sub)
  /\ UNCHANGED <<output, gateVars>>

fetchSubmissionOverview ==
  /\ output.overview = NoCall
  /\ output' = [output EXCEPT !.overview = SubmissionOverview(input)]
  /\ UNCHANGED <<input, gateVars>>

fetchProblemDifficulty ==
  /\ output.difficulty = NoCall
  /\ output' = [output EXCEPT !.difficulty = ProblemDifficulty(input)]
  /\ UNCHANGED <<input, gateVars>>

AggNext ==
  \/ \E sub \in Submissions : Submit(sub)
  \/ fetchSubmissionOverview
  \/ fetchProblemDifficulty

AggSpec == AggInit /\ [][AggNext]_vars

\* ------------------------------ aggregate.ts: contests (contest.list)
\* Bound: the number of contests published after the ones already listed.
MaxPublished == 3

\* aggregate.ts:88: slice(0, 20)
UpcomingLimit == 20

\* dayjs().unix() when the list is read, in seconds   (aggregate.ts:85)
Now == 1000

Contest(name, phase, start) ==
  [name |-> name, phase |-> phase, startTimeSeconds |-> start,
   durationSeconds |-> 7200]

\* The contests upstream may list: upcoming rounds and finished ones, starting
\* before, at and after Now.
ContestKinds ==
  {Contest("Codeforces Round (Div. 2)", "BEFORE", Now + d) : d \in {-100, 0, 50, 100}}
  \cup {Contest("Educational Round", "FINISHED", Now + d) : d \in {-100, 0, 50, 100}}

\* A long-announced round, listed UpcomingLimit - 1 times over.
Announced == Contest("Codeforces Global Round", "BEFORE", Now + 100)

\* name.match(/Div\.?\s*(\d)/i)   (aggregate.ts:97-100), on the names above
extractDivision(name) ==
  IF name = "Codeforces Round (Div. 2)" THEN "Div.2" ELSE "null"

\* Mutant of Upcoming: a contest that starts at now is kept.
UpcomingOrStarting(c, now) == c.phase = "BEFORE" /\ c.startTimeSeconds >= now

\* aggregate.ts:87: the predicate of the filter.
Upcoming(c, now) == c.phase = "BEFORE" /\ c.startTimeSeconds > now

\* Array.prototype.slice(0, end)
SliceTo(list, end) == SubSeq(list, 1, Min(Len(list), end))

\* aggregate.ts:89-94: the entry a contest maps to.
ContestEntry(c) ==
  [name |-> c.name, division |-> extractDivision(c.name),
   startTimeSeconds |-> c.startTimeSeconds, durationSeconds |-> c.durationSeconds]

\* fetchUpcomingContests, after the await of cf   (aggregate.ts:83-95)
UpcomingContests(list, now) ==
  LET kept == SliceTo(SelectSeq(list, LAMBDA c : Upcoming(c, now)), UpcomingLimit)
  IN  [i \in 1..Len(kept) |-> ContestEntry(kept[i])]

\* contests.sort((a, b) => a.startTimeSeconds - b.startTimeSeconds)
\* (page.tsx:30), a stable sort.
SortByStart(contests) ==
  LET n == Len(contests)
      rank(i) == 1 + Cardinality({j \in 1..n :
                       \/ contests[j].startTimeSeconds < contests[i].startTimeSeconds
                       \/ /\ contests[j].startTimeSeconds = contests[i].startTimeSeconds
                          /\ j < i})
  IN  [p \in 1..n |-> contests[CHOOSE i \in 1..n : rank(i) = p]]

\* input is what contest.list answers with and the time of the call; output
\* holds what fetchUpcomingContests returned and what the page shows.
ContestInit ==
  /\ GateInit
  /\ env = [CF_KEY |-> "key", CF_SECRET |-> "key"]
  /\ input \in {[list |-> [i \in 1..n |-> Announced], now |-> Now, published |-> 0] :
                  n \in {0, UpcomingLimit - 1}}
  /\ output = NoCall

\* Upstream lists one more contest, after the ones it lists already.
Publish(c) ==
  /\ input.published < MaxPublished
  /\ output = NoCall
  /\ input' = [input EXCEPT !.list = Append(@, c), !.published = @ + 1]
  /\ UNCHANGED <<output, gateVars>>

\* page.tsx:28-33: the effect of the first render.
HomeMount ==
  /\ output = NoCall
  /\ LET returned == UpcomingContests(input.list, input.now) IN
       output' = [returned |-> returned, upcoming |-> SortByStart(returned)]
  /\ UNCHANGED <<input, gateVars>>

\* page.tsx:35-60, for a handle that is set and calls that all succeed.
loadAll ==
  /\ output = NoCall
  /\ LET returned == UpcomingContests(input.list, input.now) IN
       output' = [returned |-> returned, upcoming |-> returned]
  /\ UNCHANGED <<input, gateVars>>

ContestNext ==
  \/ \E c \in ContestKinds : Publish(c)
  \/ HomeMount
  \/ loadAll

ContestSpec == ContestInit /\ [][ContestNext]_vars

\* ------------------------------ aggregate.ts: ratings (user.rating)
\* Bound: the number of rated contests of the handle.
MaxEntries == 3

\* The rating changes of the handle under study: a rank, and a rating that
\* goes from 1500 to newRating.
RatingEntries ==
  {[rank |-> r, oldRating |-> 1500, newRating |-> n] :
     r \in {3, 12, 50}, n \in {1480, 1495, 1510, 1520}}

\* Mutant of MathRound: the quotient is floored.
MathFloor(num, den) == num \div den

\* Math.round(num / den) for den > 0: the nearest integer, a half going up.
MathRound(num, den) == (2 * num + den) \div (2 * den)

\* aggregate.ts:105: entries.reduce(..., null)
RECURSIVE BestRankFold(_, _)
BestRankFold(entries, acc) ==
  IF entries = <<>> THEN acc
  ELSE BestRankFold(Tail(entries),
         IF acc = JsNull THEN JsNumber(Head(entries).rank)
         ELSE JsNumber(Min(acc[2], Head(entries).rank)))

\* aggregate.ts:106: entries.reduce(..., 0)
RECURSIVE DeltaFold(_, _)
DeltaFold(entries, sum) ==
  IF entries = <<>> THEN sum
  ELSE DeltaFold(Tail(entries), sum + (Head(entries).newRating - Head(entries).oldRating))

\* fetchRatingHistory, after the await of cf   (aggregate.ts:102-108)
RatingSummary(entries) ==
  LET total == Len(entries) IN
  [total |-> total,
   bestRank |-> BestRankFold(entries, JsNull),
   avgDelta |-> IF total # 0 THEN JsNumber(MathRound(DeltaFold(entries, 0), total))
                ELSE JsNull]

RatingInit ==
  /\ GateInit
  /\ env = [CF_KEY |-> "key", CF_SECRET |-> "key"]
  /\ input = <<>>
  /\ output = NoCall

\* The handle takes part in one more rated contest before the page loads.
Rate(entry) ==
  /\ Len(input) < MaxEntries
  /\ output = NoCall
  /\ input' = Append(input, entry)
  /\ UNCHANGED <<output, gateVars>>

fetchRatingHistory ==
  /\ output = NoCall
  /\ output' = [summary |-> RatingSummary(input), entries |-> input]
  /\ UNCHANGED <<input, gateVars>>

RatingNext ==
  \/ \E entry \in RatingEntries : Rate(entry)
  \/ fetchRatingHistory

RatingSpec == RatingInit /\ [][RatingNext]_vars

\* ------------------------- analytics/page.tsx: the consistency metrics
\* Bound: the number of weeks added to the activity array.
MaxWeeks == 4

\* The submissions of one week.
WeekCounts == {0, 1, 3}

\* page.tsx:170-175: the counters before the loop.
ConsistencyStart ==
  [currentStreak |-> 0, longestStreak |-> 0, tempStreak |-> 0, activeWeeks |-> 0,
   drySpells |-> 0, maxWeeklySubmissions |-> 0]

\* page.tsx:178-195: the loop, from index i (counted from 1) down to the
\* first entry.
RECURSIVE ConsistencyLoop(_, _, _)
ConsistencyLoop(weeklyActivity, i, acc) ==
  IF i < 1 THEN acc
  ELSE LET activity == weeklyActivity[i]
           seen == [acc EXCEPT !.maxWeeklySubmissions = Max(@, activity)]
           step ==
             IF activity > 0
             THEN [seen EXCEPT
                     !.activeWeeks = @ + 1,
                     !.tempStreak = @ + 1,
                     !.currentStreak =
                        IF i = Len(weeklyActivity) \/ weeklyActivity[i + 1] > 0
                        THEN seen.tempStreak + 1 ELSE @]
             ELSE IF seen.tempStreak > 0
                  THEN [seen EXCEPT
                          !.drySpells = @ + 1,
                          !.longestStreak = Max(@, seen.tempStreak),
                          !.tempStreak = 0]
                  ELSE seen
       IN  ConsistencyLoop(weeklyActivity, i - 1, step)

\* page.tsx:169-213
calculateConsistencyMetrics(weeklyActivity) ==
  LET acc == ConsistencyLoop(weeklyActivity, Len(weeklyActivity), ConsistencyStart)
      rate100 == acc.activeWeeks * 100
  IN  [currentStreak |-> acc.currentStreak,
       longestStreak |-> Max(Max(acc.longestStreak, acc.tempStreak), acc.currentStreak),
       activeWeeks |-> acc.activeWeeks,
       drySpells |-> acc.drySpells,
       maxWeeklySubmissions |-> acc.maxWeeklySubmissions,
       status |-> IF rate100 >= 80 * 26 THEN "excellent"
                  ELSE IF rate100 >= 60 * 26 THEN "good"
                  ELSE IF rate100 >= 40 * 26 THEN "inconsistent"
                  ELSE "needs-work"]

\* input is a weekly activity array, oldest week first: empty, or seven
\* weeks of history, and the weeks that follow.
ConsistencyInit ==
  /\ GateInit
  /\ env = [CF_KEY |-> "key", CF_SECRET |-> "key"]
  /\ input \in {[weeks |-> w, added |-> 0] : w \in {<<>>, <<2, 0, 3, 1, 0, 0, 5>>}}
  /\ output = NoCall

\* One more week goes by.
WeekPasses(count) ==
  /\ input.added < MaxWeeks
  /\ output = NoCall
  /\ input' = [weeks |-> Append(input.weeks, count), added |-> input.added + 1]
  /\ UNCHANGED <<output, gateVars>>

ComputeConsistency ==
  /\ output = NoCall
  /\ output' = calculateConsistencyMetrics(input.weeks)
  /\ UNCHANGED <<input, gateVars>>

ConsistencyNext ==
  \/ \E count \in WeekCounts : WeekPasses(count)
  \/ ComputeConsistency

ConsistencySpec == ConsistencyInit /\ [][ConsistencyNext]_vars

\* --------------------------- aggregate.ts: activity (fetchActivity)
\* A calendar date is <<year, month, day>> in local time.  DayNumber counts
\* the days from Monday 1 January of year 1, which is day 1.
DayNumber(date) ==
  LET y == date[1] - 1
      leap == (date[1] % 4 = 0 /\ date[1] % 100 # 0) \/ date[1] % 400 = 0
      before == <<0, 31, 59, 90, 120, 151, 181, 212, 243, 273, 304, 334>>
  IN  365 * y + y \div 4 - y \div 100 + y \div 400 + before[date[2]]
      + (IF leap /\ date[2] > 2 THEN 1 ELSE 0) + date[3]

\* date.isoWeekYear() and date.isoWeek() (aggregate.ts:162): the year and
\* the number of the week of the date's Thursday; monday is the day number
\* of the first day of that week.
IsoWeekOf(date) ==
  LET n == DayNumber(date)
      thursday == n - ((n - 1) % 7) + 3
      year == CHOOSE y \in {date[1] - 1, date[1], date[1] + 1} :
                /\ DayNumber(<<y, 1, 1>>) <= thursday
                /\ thursday < DayNumber(<<y + 1, 1, 1>>)
  IN  [year |-> year, week |-> (thursday - DayNumber(<<year, 1, 1>>)) \div 7 + 1,
       monday |-> thursday - 3]

\* `${date.isoWeekYear()}-${date.isoWeek()}`   (aggregate.ts:162, 198)
WeekIdOf(date) == Digits(IsoWeekOf(date).year) \o <<"-">> \o Digits(IsoWeekOf(date).week)

\* date.format('YYYY-MM-DD')   (aggregate.ts:171)
DayIdOf(date) ==
  LET pad(n) == IF n < 10 THEN <<"0">> \o Digits(n) ELSE Digits(n) IN
  Digits(date[1]) \o <<"-">> \o pad(date[2]) \o <<"-">> \o pad(date[3])

\* The number a string of decimal digits stands for.
RECURSIVE ParseNat(_)
ParseNat(str) ==
  IF str = <<>> THEN 0
  ELSE 10 * ParseNat(SubSeq(str, 1, Len(str) - 1))
       + (CHOOSE i \in 0..9 : Digits(i) = <<str[Len(str)]>>)

\* The default comparison of Array.prototype.sort (aggregate.ts:175): a
\* string goes before another when it is lower by UTF-16 code units, "-"
\* (45) being lower than the digits (48..57).
RECURSIVE StringLess(_, _)
StringLess(a, b) ==
  LET code(c) == IF c = "-" THEN 45 ELSE 48 + ParseNat(<<c>>) IN
  IF b = <<>> THEN FALSE
  ELSE IF a = <<>> THEN TRUE
  ELSE IF code(Head(a)) # code(Head(b)) THEN code(Head(a)) < code(Head(b))
  ELSE StringLess(Tail(a), Tail(b))

\* dayjs(weekId, 'YYYY-W') (aggregate.ts:186).  Without the customParseFormat
\* plugin dayjs ignores the format: the text is read as year and month, and
\* the date is new Date(year, month - 1, 1), where a month past 12 runs on
\* into the following years.
DayjsParse(weekId) ==
  LET year == ParseNat(SubSeq(weekId, 1, 4))
      monthIndex == ParseNat(SubSeq(weekId, 6, Len(weekId))) - 1
  IN  <<year + (monthIndex \div 12), (monthIndex % 12) + 1, 1>>

\* dayjs().subtract(1, 'week').format('YYYY-W') (aggregate.ts:200).  Without
\* the advancedFormat plugin W is no token of format and stays as it is.
LastWeekFormatted(today) ==
  LET year == IF DayNumber(today) - 7 < DayNumber(<<today[1], 1, 1>>)
              THEN today[1] - 1 ELSE today[1]
  IN  Digits(year) \o <<"-", "W">>

\* A submission of the activity feed: created stands for the local date of
\* dayjs.unix(s.creationTimeSeconds).
ActivityDates == {<<2023, 12, 27>>, <<2024, 2, 21>>, <<2024, 2, 28>>, <<2024, 3, 4>>,
                  <<2024, 3, 6>>}
ActivitySubmissions ==
  {[created |-> d, verdict |-> v] : d \in ActivityDates, v \in {"OK", "WRONG_ANSWER"}}
\* The dates of dayjs() under study: none is before a submission.
Todays == {<<2024, 3, 6>>, <<2024, 3, 13>>}

\* aggregate.ts:159-173: the loop that fills weekly and heatmap, each a list
\* of entries in the order of insertion of their keys.
RECURSIVE ActivityLoop(_, _)
ActivityLoop(subs, acc) ==
  IF subs = <<>> THEN acc
  ELSE LET sub == Head(subs)
           weekId == WeekIdOf(sub.created)
           dayId == DayIdOf(sub.created)
           weekly == IF \E i \in 1..Len(acc.weekly) : acc.weekly[i].week = weekId
                     THEN acc.weekly
                     ELSE Append(acc.weekly,
                                 [week |-> weekId, submissions |-> 0, accepted |-> 0])
           heatmap == IF \E i \in 1..Len(acc.heatmap) : acc.heatmap[i].day = dayId
                      THEN acc.heatmap
                      ELSE Append(acc.heatmap, [day |-> dayId, count |-> 0])
       IN  ActivityLoop(Tail(subs),
             [weekly |-> [i \in 1..Len(weekly) |->
                            IF weekly[i].week # weekId THEN weekly[i]
                            ELSE [week |-> weekId,
                                  submissions |-> weekly[i].submissions + 1,
                                  accepted |-> weekly[i].accepted
                                               + (IF sub.verdict = "OK" THEN 1 ELSE 0)]],
              heatmap |-> [i \in 1..Len(heatmap) |->
                             IF heatmap[i].day # dayId THEN heatmap[i]
                             ELSE [day |-> dayId, count |-> heatmap[i].count + 1]]])

\* Object.keys(weekly).sort()   (aggregate.ts:175)
SortedWeeks(weekly) ==
  LET n == Len(weekly)
      rank(i) == 1 + Cardinality({j \in 1..n : StringLess(weekly[j].week, weekly[i].week)})
  IN  [p \in 1..n |-> weekly[CHOOSE i \in 1..n : rank(i) = p].week]

\* aggregate.ts:185-196: the loop over sortedWeeks, from index i (counted
\* from 1) on.
RECURSIVE StreakLoop(_, _, _)
StreakLoop(sortedWeeks, i, acc) ==
  IF i > Len(sortedWeeks) THEN acc
  ELSE LET week == IsoWeekOf(DayjsParse(sortedWeeks[i])).week
           currentStreak == IF i > 1 /\ week = acc.lastWeek + 1
                            THEN acc.currentStreak + 1 ELSE 1
       IN  StreakLoop(sortedWeeks, i + 1,
             [currentStreak |-> currentStreak,
              longestStreak |-> Max(acc.longestStreak, currentStreak),
              lastWeek |-> week])

\* Mutant of StreakBroken: the streak is never reset.
StreakNeverBroken(today, lastSubmissionWeekId) == FALSE

\* aggregate.ts:198-200: the condition under which currentStreak is reset.
StreakBroken(today, lastSubmissionWeekId) ==
  /\ WeekIdOf(today) # lastSubmissionWeekId
  /\ LastWeekFormatted(today) # lastSubmissionWeekId

\* Mutant of MostProductive: a week replaces the best one when it has fewer
\* submissions.
RECURSIVE LeastProductive(_, _)
LeastProductive(weekly, best) ==
  IF weekly = <<>> THEN best
  ELSE LeastProductive(Tail(weekly),
         IF best = JsNull \/ Head(weekly).submissions < best[2].submissions
         THEN <<"object", [week |-> Head(weekly).week,
                           submissions |-> Head(weekly).submissions]>>
         ELSE best)

\* aggregate.ts:205-210: for (const week in weekly), in insertion order; the
\* result is null or <<"object", o>>.
RECURSIVE MostProductive(_, _)
MostProductive(weekly, best) ==
  IF weekly = <<>> THEN best
  ELSE MostProductive(Tail(weekly),
         IF best = JsNull \/ Head(weekly).submissions > best[2].submissions
         THEN <<"object", [week |-> Head(weekly).week,
                           submissions |-> Head(weekly).submissions]>>
         ELSE best)

\* aggregate.ts:212: Object.values(weekly).reduce(...)
RECURSIVE TotalAccepted(_)
TotalAccepted(weekly) ==
  IF weekly = <<>> THEN 0 ELSE Head(weekly).accepted + TotalAccepted(Tail(weekly))

\* fetchActivity, after the await of cf, with dayjs() on the date today
\* (aggregate.ts:154-226).  A quotient is kept as <<"ratio", num, den>>.
Activity(subs, today) ==
  LET tally == ActivityLoop(subs, [weekly |-> <<>>, heatmap |-> <<>>])
      sortedWeeks == SortedWeeks(tally.weekly)
      n == Len(sortedWeeks)
      streak == StreakLoop(sortedWeeks, 1,
                           [currentStreak |-> 0, longestStreak |-> 0, lastWeek |-> 0])
  IN  [weeks |-> tally.weekly,
       streak |-> [current |-> IF n > 0 /\ StreakBroken(today, sortedWeeks[n])
                               THEN 0 ELSE streak.currentStreak,
                   longest |-> streak.longestStreak,
                   activeWeeks |-> n],
       heatmap |-> tally.heatmap,
       mostProductiveWeek |-> MostProductive(tally.weekly, JsNull),
       avgAcceptedPerWeek |-> IF n > 0 THEN <<"ratio", TotalAccepted(tally.weekly), n>>
                              ELSE JsNumber(0)]

\* input is the list user.status answers with and the date of the call;
\* output is what fetchActivity returned.
ActivityInit ==
  /\ GateInit
  /\ env = [CF_KEY |-> "key", CF_SECRET |-> "key"]
  /\ input \in {[subs |-> <<>>, today |-> t] : t \in Todays}
  /\ output = NoCall

\* One more submission is on the handle's record before the page loads.
SubmitOn(sub) ==
  /\ Len(input.subs) < MaxSubs
  /\ output = NoCall
  /\ input' = [input EXCEPT !.subs = Append(@, sub)]
  /\ UNCHANGED <<output, gateVars>>

fetchActivity ==
  /\ output = NoCall
  /\ output' = Activity(input.subs, input.today)
  /\ UNCHANGED <<input, gateVars>>

ActivityNext ==
  \/ \E sub \in ActivitySubmissions : SubmitOn(sub)
  \/ fetchActivity

ActivitySpec == ActivityInit /\ [][ActivityNext]_vars

\* ------------------------------------ analytics/page.tsx: the badges
JsNaN == <<"NaN">>

\* Math.min(100, Math.round(num / den)) (page.tsx:238-258): 0 / 0 is NaN, and
\* so are its rounding and its minimum with 100.
Progress(num, den) ==
  IF den = 0 THEN JsNaN ELSE JsNumber(Min(100, MathRound(num, den)))

\* page.tsx:229-262, without the descriptions.
generateBadgesFromData(profileData, ratingsData, submissionsData, difficultyData) ==
  LET contestCount == ratingsData.summary.total
      currentRating == IF profileData.currentRating \in {JsNull, JsNumber(0)} THEN 0
                       ELSE profileData.currentRating[2]
      totalSolved == difficultyData.totalSolved
  IN  <<[name |-> "Never Give Up",
         progress |-> Progress(submissionsData.accepted * 100 * 2, submissionsData.total)],
        [name |-> "Speed Demon", progress |-> Progress(totalSolved * 100, 100)],
        [name |-> "Consistent Coder",
         progress |-> Progress(profileData.contribution + 50, 2)],
        [name |-> "Contest Warrior", progress |-> Progress(contestCount * 100, 50)],
        [name |-> "Rating Climber", progress |-> Progress(currentRating * 100, 2500)]>>

\* The aggregates of the handles under study: input holds the four arguments.
BadgeInputs ==
  [profileData : [currentRating : {JsNull, JsNumber(0), JsNumber(1500), JsNumber(3000)},
                  contribution : {-60, -51, 0, 200}],
   ratingsData : [summary : [total : {0, 10, 60}]],
   submissionsData : {[accepted |-> 0, total |-> 0], [accepted |-> 1, total |-> 4],
                      [accepted |-> 3, total |-> 3]},
   difficultyData : [totalSolved : {0, 50, 150}]]

BadgeInit ==
  /\ GateInit
  /\ env = [CF_KEY |-> "key", CF_SECRET |-> "key"]
  /\ input \in BadgeInputs
  /\ output = NoCall

GenerateBadges ==
  /\ output = NoCall
  /\ output' = generateBadgesFromData(input.profileData, input.ratingsData,
                                      input.submissionsData, input.difficultyData)
  /\ UNCHANGED <<input, gateVars>>

BadgeSpec == BadgeInit /\ [][GenerateBadges]_vars

\* ------------------------------------------------------------------ claims
\* Position of request r in a sequence of request ids (0: not in it).
IndexIn(seq, r) ==
  IF \E i \in 1..Len(seq) : seq[i] = r
  THEN CHOOSE i \in 1..Len(seq) : seq[i] = r
  ELSE 0

\* The requests between their read of lastCallTs (route.ts:12-13) and the end
\* of their upstream call (route.ts:27).
InGate == {r \in Reqs : pc[r] \in {"sleeping", "fetching"}}

\* C1: the start times of any two consecutive upstream fetches are at least
\* minIntervalMs apart.
C1_MinDispatchGap ==
  Len(dispatchLog) = 2 => dispatchLog[2] - dispatchLog[1] >= minIntervalMs

\* C2: at most one request at a time is between its read of lastCallTs and
\* its update of lastCallTs (one critical section around read, check, suspend,
\* dispatch and update).
C2_OneCallInGate == Cardinality(InGate) <= 1

\* C3: requests are dispatched upstream in the order of their arrival: a
\* request that arrived before a dispatched one and is itself to be
\* dispatched has been dispatched before it.
C3_FifoDispatch ==
  \A a, b \in Reqs :
    (IndexIn(arrivals, a) > 0 /\ IndexIn(arrivals, a) < IndexIn(arrivals, b)
       /\ IndexIn(dispatched, b) > 0)
    => /\ pc[a] # "sleeping"
       /\ IndexIn(dispatched, a) > 0 => IndexIn(dispatched, a) < IndexIn(dispatched, b)

\* C4: whenever the upstream call of a request ends, by the fetch resolving or
\* rejecting or by signing throwing, lastCallTs becomes the current time.
C4_FailedCallConsumesSlot ==
  [][\A r \in Reqs :
       (responses'[r] > responses[r] /\ ~MissingMethod(method[r]))
       => lastCallTs' = clock']_vars

\* C5: every request that reached the handler gets a response, and never more
\* than one.  A request stays arrived and a response stays given, so "each
\* arrived request is eventually answered" is "from some point on every
\* arrived request has its one response".
C5_NoCallerDropped ==
  /\ [](\A r \in Reqs : responses[r] <= 1)
  /\ <>[](\A r \in Reqs : IndexIn(arrivals, r) > 0 => responses[r] = 1)

\* C5 witness: all the requests have arrived, one is still suspended on its
\* timer, and the others have been answered, one of them after a fetch that
\* started while that timer was pending.
C5_Witness ==
  \E a, c \in Reqs :
    /\ pc[a] = "sleeping"
    /\ IndexIn(arrivals, a) < IndexIn(arrivals, c)
    /\ fetches[c] = 1
    /\ \A r \in Reqs \ {a} : responses[r] = 1

\* C6: cf returns the result only for an "OK" envelope, and for every other
\* envelope it throws an error whose message is the upstream comment,
\* whatever the HTTP status.
C6_CfCarriesUpstreamComment ==
  \A r \in Reqs :
    /\ pc[r] = "returned" => res[r].body.status = "OK"
    /\ (pc[r] \in {"returned", "threw"} /\ res[r].body.status = "OK")
       => (pc[r] = "returned" /\ out[r] = res[r].body.result)
    /\ (pc[r] \in {"returned", "threw"} /\ res[r].body.status = "FAILED"
          /\ res[r].body.comment # "")
       => (pc[r] = "threw" /\ out[r] = res[r].body.comment)

\* C7: no retries: a call of cf makes at most one request to the proxy, a
\* proxy request makes at most one upstream fetch, and a failure of the fetch
\* or of signing ends the request and is what the caller gets.
C7_NoRetries ==
  \A r \in Reqs :
    /\ proxyReqs[r] <= 1
    /\ fetches[r] <= 1
    /\ signs[r] <= 1
    /\ thrown[r] # NoError
       => /\ pc[r] = "threw"
          /\ res[r].status = 500
          /\ out[r] = HttpErrorMessage(500)

\* C7 witness: a rejected upstream fetch and a FAILED envelope, each after
\* one fetch, each handed to its caller.
C7_Witness ==
  \E a, b \in Reqs :
    /\ thrown[a] = "fetch failed" /\ fetches[a] = 1 /\ proxyReqs[a] = 1
    /\ pc[a] = "threw"
    /\ res[b].body.status = "FAILED" /\ fetches[b] = 1 /\ proxyReqs[b] = 1
    /\ pc[b] = "threw"

\* C8: while CF_KEY or CF_SECRET is missing, every signing attempt throws the
\* configuration error and no upstream fetch is ever dispatched.
C8_NoFetchWithoutCredentials ==
  (Falsy(env.CF_KEY) \/ Falsy(env.CF_SECRET))
  => /\ dispatched = <<>>
     /\ dispatchLog = <<>>
     /\ \A r \in Reqs :
          /\ fetches[r] = 0
          /\ pc[r] # "fetching"
          /\ signs[r] > 0 => /\ thrown[r] = "Missing CF_KEY/CF_SECRET"
                             /\ res[r] = CatchResponse("Missing CF_KEY/CF_SECRET")

\* C8 witness: the key is set, the secret is not, and a request with a method
\* has been through signing.
C8_Witness ==
  /\ ~Falsy(env.CF_KEY)
  /\ Falsy(env.CF_SECRET)
  /\ \E r \in Reqs : signs[r] = 1 /\ method[r] = "user.info" /\ pc[r] = "threw"

\* The query of request r has no method, or an empty one.
MethodAbsent(r) == pc[r] # "idle" /\ method[r] \in {NullParam, ""}

\* C9: a request without a method is answered 400 and nothing else happens:
\* no timer, no signing, no upstream fetch, lastCallTs as it was.
C9_MissingMethodOnly400 ==
  /\ [](\A r \in Reqs :
          (MethodAbsent(r) /\ IndexIn(arrivals, r) > 0)
          => /\ res[r] = [status |-> 400, body |-> ErrorBody("Missing method")]
             /\ responses[r] = 1
             /\ wakeAt[r] = 0 /\ signs[r] = 0 /\ fetches[r] = 0
             /\ IndexIn(dispatched, r) = 0)
  /\ [][\A r \in Reqs :
          (MethodAbsent(r) /\ pc[r] = "sent" /\ pc'[r] # "sent")
          => /\ responses'[r] = 1
             /\ <<lastCallTs, wakeAt, dispatchLog, dispatched, fetches, signs, thrown>>'
                = <<lastCallTs, wakeAt, dispatchLog, dispatched, fetches, signs, thrown>>]_vars

\* C9 witness: a request without a method parameter was answered while
\* another request was suspended on its timer.
C9_Witness ==
  \E r, q \in Reqs :
    /\ method[r] = NullParam /\ res[r].status = 400
    /\ pc[q] = "sleeping" /\ IndexIn(arrivals, q) < IndexIn(arrivals, r)

\* C10: every caught failure, of signing or of the upstream fetch, is answered
\* with status 500 and the body {error: message} with the message as thrown,
\* in the step in which it is thrown.
C10_FailuresAnswered500 ==
  \A r \in Reqs :
    thrown[r] # NoError
    => /\ res[r].status = 500
       /\ res[r].body = ErrorBody(thrown[r])
       /\ responses[r] = 1
       /\ pc[r] \notin {"sleeping", "fetching"}

\* C10 witness: a request whose upstream fetch rejected has its response.
C10_Witness ==
  \E r \in Reqs : thrown[r] = "fetch failed" /\ fetches[r] = 1 /\ responses[r] = 1


\* Two parameter lists hold the same mapping: the same keys with the same
\* values, whatever the order of insertion.
SameMapping(p, q) == {p[i] : i \in 1..Len(p)} = {q[i] : i \in 1..Len(q)}

\* Date.now() / 1000, floored: the timestamp of a signing.
TimestampOf(call) == call.nowMs \div 1000

\* C11: signing is deterministic: two signings with the same method, the same
\* mapping of parameters, the same timestamp, the same secret and the same
\* nonce produce the same signature and the same URL.
C11_SigningDeterministic ==
  \A i, j \in 1..Len(output) :
    ( /\ output[i].methodName = output[j].methodName
      /\ SameMapping(output[i].params, output[j].params)
      /\ TimestampOf(output[i]) = TimestampOf(output[j])
      /\ output[i].rand = output[j].rand )
    => /\ output[i].signed.apiSig = output[j].signed.apiSig
       /\ output[i].signed.url = output[j].signed.url

\* C12: for every mapping of parameters, any order of insertion of its keys
\* gives the same sorted entries, hence the same query string and the same
\* parameter part of the signature base.
C12_InsertionOrderIrrelevant ==
  \A i, j \in 1..Len(output) :
    ( /\ SameMapping(output[i].params, output[j].params)
      /\ TimestampOf(output[i]) = TimestampOf(output[j]) )
    => /\ output[i].signed.sorted = output[j].signed.sorted
       /\ output[i].signed.query = output[j].signed.query

\* The problems of a submission list that have an "OK" submission.
ProblemsSolved(subs) ==
  {<<subs[i].problem.contestId, subs[i].problem.index>> :
     i \in {j \in 1..Len(subs) : subs[j].verdict = "OK"}}

\* C13: totalSolved is the number of distinct problems (contestId, index)
\* that have at least one "OK" submission, also when a problem has several.
C13_SolvedAtMostOnce ==
  output.difficulty # NoCall
  => output.difficulty.totalSolved = Cardinality(ProblemsSolved(input))

OfProblem(sub, p) == <<sub.problem.contestId, sub.problem.index>> = p
OkCount(subs, p) ==
  Cardinality({i \in 1..Len(subs) : OfProblem(subs[i], p) /\ subs[i].verdict = "OK"})
BucketSum(d) ==
  d.buckets["lt1100"] + d.buckets["1100_1399"] + d.buckets["1400_1699"]
  + d.buckets["1700_1999"] + d.buckets["ge2000"]
Without(subs, p) == SelectSeq(subs, LAMBDA sub : ~OfProblem(sub, p))
WithoutFailed(subs, p) ==
  SelectSeq(subs, LAMBDA sub : ~(OfProblem(sub, p) /\ sub.verdict # "OK"))
OkRating(subs, p) ==
  LET i == CHOOSE j \in 1..Len(subs) : OfProblem(subs[j], p) /\ subs[j].verdict = "OK"
  IN  subs[i].problem.rating

\* C14: a problem with exactly one "OK" submission adds exactly 1 to
\* totalSolved and, when that submission has a rating, exactly 1 to exactly
\* one bucket (none otherwise); its other submissions add nothing.
C14_OneOkCountsOnce ==
  output.difficulty # NoCall =>
    \A p \in Problems :
      OkCount(input, p) = 1 =>
        LET d == output.difficulty
            rest == ProblemDifficulty(Without(input, p))
            rated == OkRating(input, p) # JsUndefined
        IN  /\ d.totalSolved = rest.totalSolved + 1
            /\ BucketSum(d) = BucketSum(rest) + (IF rated THEN 1 ELSE 0)
            /\ \A b \in BucketNames : d.buckets[b] >= rest.buckets[b]
            /\ ProblemDifficulty(WithoutFailed(input, p)) = d

C14_Witness ==
  /\ output.difficulty # NoCall
  /\ \E p \in Problems :
       /\ OkCount(input, p) = 1
       /\ OkRating(input, p) # JsUndefined
       /\ Len(input) - Len(Without(input, p)) = MaxSubs

\* C15: aggregating zero submissions yields the overview {total: 0,
\* accepted: 0, verdictCounts: {}, languages: {}} and the difficulty
\* {totalSolved: 0, highestSolvedRating: null, every bucket 0}.
C15_EmptyAggregates ==
  input = <<>> =>
    /\ output.overview # NoCall =>
         output.overview = [total |-> 0, accepted |-> 0, verdictCounts |-> <<>>,
                            languages |-> <<>>]
    /\ output.difficulty # NoCall =>
         /\ output.difficulty.totalSolved = 0
         /\ output.difficulty.highestSolvedRating = JsNull
         /\ \A b \in BucketNames : output.difficulty.buckets[b] = 0

C15_Witness ==
  /\ input = <<>>
  /\ output.overview # NoCall
  /\ output.difficulty # NoCall

\* C16: every entry fetchUpcomingContests returns comes from a listed contest
\* whose phase is "BEFORE" and whose start time is strictly greater than now.
C16_OnlyFutureContests ==
  output # NoCall =>
    \A k \in 1..Len(output.returned) :
      /\ output.returned[k].startTimeSeconds > input.now
      /\ \E i \in 1..Len(input.list) :
           /\ input.list[i].phase = "BEFORE"
           /\ input.list[i].name = output.returned[k].name
           /\ input.list[i].startTimeSeconds = output.returned[k].startTimeSeconds

C16_Witness ==
  /\ output # NoCall
  /\ Len(output.returned) > 0
  /\ \E i \in 1..Len(input.list) :
       input.list[i].phase = "BEFORE" /\ input.list[i].startTimeSeconds = input.now
  /\ \E i \in 1..Len(input.list) :
       input.list[i].phase = "FINISHED" /\ input.list[i].startTimeSeconds > input.now

\* C17: the list fetchUpcomingContests returns is ordered by start time
\* ascending, whatever the order of the upstream list.
C17_ReturnedAscending ==
  output # NoCall =>
    \A k \in 1..Len(output.returned) - 1 :
      output.returned[k].startTimeSeconds <= output.returned[k + 1].startTimeSeconds

\* The start times of the upstream contests that pass the filter, and how
\* often a start time occurs in a list.
PassingStarts ==
  {input.list[i].startTimeSeconds :
     i \in {j \in 1..Len(input.list) :
              /\ input.list[j].phase = "BEFORE"
              /\ input.list[j].startTimeSeconds > input.now}}
StartCount(list, t) == Cardinality({i \in 1..Len(list) : list[i].startTimeSeconds = t})
PassingCount(t) ==
  Cardinality({i \in 1..Len(input.list) :
                 /\ input.list[i].phase = "BEFORE"
                 /\ input.list[i].startTimeSeconds = t})

\* C18: at most 20 entries are returned, and no returned contest starts
\* later than a contest that passed the filter and was left out.
C18_EarliestTwentyKept ==
  output # NoCall =>
    /\ Len(output.returned) <= 20
    /\ \A t \in PassingStarts :
         StartCount(output.returned, t) < PassingCount(t) =>
           \A k \in 1..Len(output.returned) : output.returned[k].startTimeSeconds <= t

RECURSIVE SumOfDeltas(_)
SumOfDeltas(entries) ==
  IF entries = <<>> THEN 0
  ELSE (entries[Len(entries)].newRating - entries[Len(entries)].oldRating)
       + SumOfDeltas(SubSeq(entries, 1, Len(entries) - 1))
Abs(x) == IF x < 0 THEN -x ELSE x

\* C19: total is the number of entries, bestRank the least rank and avgDelta
\* an integer nearest to the mean of newRating - oldRating (at most one half
\* away from it); both are null for the empty list; ranks [12, 3, 50] with
\* deltas [+20, -5, +10] give bestRank 3 and avgDelta 8.
C19_RatingSummary ==
  output # NoCall =>
    LET n == Len(input)
        sm == output.summary
    IN  /\ sm.total = n
        /\ n = 0 => sm.bestRank = JsNull /\ sm.avgDelta = JsNull
        /\ n > 0 =>
             /\ sm.bestRank[1] = "number" /\ sm.avgDelta[1] = "number"
             /\ \E i \in 1..n : input[i].rank = sm.bestRank[2]
             /\ \A i \in 1..n : input[i].rank >= sm.bestRank[2]
             /\ 2 * Abs(n * sm.avgDelta[2] - SumOfDeltas(input)) <= n
        /\ ( /\ n = 3
             /\ <<input[1].rank, input[2].rank, input[3].rank>> = <<12, 3, 50>>
             /\ <<input[1].newRating, input[2].newRating, input[3].newRating>>
                  = <<1520, 1495, 1510>> )
           => sm.bestRank = JsNumber(3) /\ sm.avgDelta = JsNumber(8)

C19_Witness ==
  /\ output # NoCall
  /\ Len(input) = 3
  /\ <<input[1].rank, input[2].rank, input[3].rank>> = <<12, 3, 50>>
  /\ <<input[1].newRating, input[2].newRating, input[3].newRating>>
       = <<1520, 1495, 1510>>

\* C20: activeWeeks is the number of entries greater than zero, and when the
\* last two entries are zero currentStreak is 0.
C20_ConsistencyMetrics ==
  output # NoCall =>
    LET w == input.weeks
        n == Len(w)
    IN  /\ output.activeWeeks = Cardinality({i \in 1..n : w[i] > 0})
        /\ (n >= 2 /\ w[n] = 0 /\ w[n - 1] = 0) => output.currentStreak = 0

\* The weeks of the calendar that hold a submission of input, each named by
\* the day number of its Monday, and the week of today.
ActiveMondays == {IsoWeekOf(input.subs[i].created).monday : i \in 1..Len(input.subs)}
MostRecentMonday == CHOOSE m \in ActiveMondays : \A k \in ActiveMondays : k <= m
TodayMonday == IsoWeekOf(input.today).monday
\* The length of the run of adjacent active weeks that ends at week m.
RunEndingAt(m) ==
  CHOOSE k \in 1..Cardinality(ActiveMondays) :
    /\ \A j \in 0..(k - 1) : m - 7 * j \in ActiveMondays
    /\ m - 7 * k \notin ActiveMondays

\* C21: when the most recent week with a submission is neither the ISO week
\* of now nor the one before it, streak.current is 0.
C21_StaleStreakIsZero ==
  (output # NoCall /\ input.subs # <<>>) =>
    (MostRecentMonday \notin {TodayMonday, TodayMonday - 7}
       => output.streak.current = 0)

C21_Witness ==
  /\ output # NoCall
  /\ input.subs # <<>>
  /\ MostRecentMonday = TodayMonday - 14
  /\ RunEndingAt(MostRecentMonday) >= 2

\* C22: every badge progress is a percentage within 0..100.
C22_ProgressIsPercentage ==
  output # NoCall =>
    \A i \in 1..Len(output) :
      /\ output[i].progress # JsNaN
      /\ output[i].progress[2] >= 0
      /\ output[i].progress[2] <= 100

\* The aggregates of a handle without submissions, rating entries or
\* contests.
EmptyProfile ==
  /\ input.submissionsData.total = SubmissionOverview(<<>>).total
  /\ input.submissionsData.accepted = SubmissionOverview(<<>>).accepted
  /\ input.difficultyData.totalSolved = ProblemDifficulty(<<>>).totalSolved
  /\ input.ratingsData.summary.total = RatingSummary(<<>>).total

\* C23: for the empty profile every derived statistic has a defined value:
\* rating summary {total 0, bestRank null, avgDelta null}, activity {weeks
\* empty, streak 0/0/0, mostProductiveWeek null, avgAcceptedPerWeek 0}, an
\* empty contest list, and every badge progress a number.
C23_EmptyProfileDefined ==
  (output # NoCall /\ EmptyProfile) =>
    /\ RatingSummary(<<>>) = [total |-> 0, bestRank |-> JsNull, avgDelta |-> JsNull]
    /\ \A today \in Todays :
         LET a == Activity(<<>>, today) IN
           /\ a.weeks = <<>>
           /\ a.streak = [current |-> 0, longest |-> 0, activeWeeks |-> 0]
           /\ a.mostProductiveWeek = JsNull
           /\ a.avgAcceptedPerWeek = JsNumber(0)
    /\ UpcomingContests(<<>>, Now) = <<>>
    /\ \A i \in 1..Len(output) : output[i].progress # JsNaN

\* The active weeks of input, oldest first, each with its ISO week number.
ChronologicalWeeks ==
  LET n == Cardinality(ActiveMondays)
      nth(p) == CHOOSE m \in ActiveMondays :
                  Cardinality({k \in ActiveMondays : k < m}) = p - 1
      numberOf(m) == IsoWeekOf(input.subs[CHOOSE i \in 1..Len(input.subs) :
                       IsoWeekOf(input.subs[i].created).monday = m].created).week
  IN  [p \in 1..n |-> numberOf(nth(p))]
\* The running streak after the k-th week: one more than before when the
\* week number is the previous one plus 1, else 1.
RECURSIVE RunningStreak(_, _)
RunningStreak(weeks, k) ==
  IF k > 1 /\ weeks[k] = weeks[k - 1] + 1 THEN RunningStreak(weeks, k - 1) + 1 ELSE 1

\* C24: the active weeks are processed oldest first, the running streak
\* grows when a week number is the previous one plus 1 and restarts at 1
\* otherwise, and streak.longest is the greatest running value.
C24_ChronologicalStreak ==
  output # NoCall =>
    LET weeks == ChronologicalWeeks IN
      /\ \A k \in 1..Len(weeks) : output.streak.longest >= RunningStreak(weeks, k)
      /\ weeks # <<>> =>
           \E k \in 1..Len(weeks) : output.streak.longest = RunningStreak(weeks, k)
      /\ weeks = <<>> => output.streak.longest = 0

\* C25: when the most recent week with a submission is the ISO week of now
\* or the one before it, streak.current is the length of the run of adjacent
\* active weeks that ends at that week.
C25_RecentStreakKept ==
  (output # NoCall /\ input.subs # <<>>) =>
    (MostRecentMonday \in {TodayMonday, TodayMonday - 7}
       => output.streak.current = RunEndingAt(MostRecentMonday))

\* The sum of a field over a list of entries.
RECURSIVE SumOf(_, _)
SumOf(entries, field) ==
  IF entries = <<>> THEN 0 ELSE Head(entries)[field] + SumOf(Tail(entries), field)

\* C30: the submissions of the weeks and the counts of the heatmap both sum
\* to the number of submissions, each week's tallies are the numbers of its
\* submissions and of its "OK" submissions, streak.activeWeeks is the number
\* of distinct weeks, and mostProductiveWeek is a week with the greatest
\* number of submissions.
C30_TalliesConserved ==
  output # NoCall =>
    LET subs == input.subs
        inWeek(w) == {j \in 1..Len(subs) : WeekIdOf(subs[j].created) = w}
    IN  /\ SumOf(output.weeks, "submissions") = Len(subs)
        /\ SumOf(output.heatmap, "count") = Len(subs)
        /\ \A i \in 1..Len(output.weeks) :
             /\ output.weeks[i].submissions = Cardinality(inWeek(output.weeks[i].week))
             /\ output.weeks[i].accepted =
                  Cardinality({j \in inWeek(output.weeks[i].week) : subs[j].verdict = "OK"})
             /\ output.weeks[i].accepted <= output.weeks[i].submissions
        /\ output.streak.activeWeeks =
             Cardinality({IsoWeekOf(subs[j].created).monday : j \in 1..Len(subs)})
        /\ subs = <<>> => output.mostProductiveWeek = JsNull
        /\ subs # <<>> =>
             /\ output.mostProductiveWeek # JsNull
             /\ \E i \in 1..Len(output.weeks) :
                  /\ output.weeks[i].week = output.mostProductiveWeek[2].week
                  /\ output.weeks[i].submissions = output.mostProductiveWeek[2].submissions
             /\ \A i \in 1..Len(output.weeks) :
                  output.weeks[i].submissions <= output.mostProductiveWeek[2].submissions

C30_Witness ==
  /\ output # NoCall
  /\ Len(output.weeks) = 2
  /\ Len(input.subs) = MaxSubs
  /\ \E i \in 1..Len(output.weeks) :
       output.weeks[i].accepted > 0 /\ output.weeks[i].accepted < output.weeks[i].submissions

\* The bucket whose range contains rating r.
RangeOf(r) ==
  CHOOSE b \in BucketNames :
    \/ b = "lt1100" /\ r <= 1099
    \/ b = "1100_1399" /\ r \in 1100..1399
    \/ b = "1400_1699" /\ r \in 1400..1699
    \/ b = "1700_1999" /\ r \in 1700..1999
    \/ b = "ge2000" /\ r >= 2000
\* The ratings of the "OK" submissions of problem p.
OkRatings(subs, p) ==
  {subs[i].problem.rating :
     i \in {j \in 1..Len(subs) : OfProblem(subs[j], p) /\ subs[j].verdict = "OK"}}

\* C26: a solved problem without a rating adds 1 to totalSolved and nothing
\* to the buckets, a solved problem with rating r adds 1 to the bucket whose
\* range contains r and to no other; the buckets sum to at most totalSolved;
\* highestSolvedRating is the greatest rating of a bucketed problem, and
\* null exactly when every bucket is 0.
C26_BucketsFollowRatings ==
  output.difficulty # NoCall =>
    LET d == output.difficulty
        rated == UNION {OkRatings(input, p) : p \in Problems} \ {JsUndefined}
    IN  /\ BucketSum(d) <= d.totalSolved
        /\ (d.highestSolvedRating = JsNull) <=> (\A b \in BucketNames : d.buckets[b] = 0)
        /\ d.highestSolvedRating # JsNull =>
             /\ d.highestSolvedRating \in rated
             /\ \A r \in rated : r[2] <= d.highestSolvedRating[2]
        /\ \A p \in Problems :
             \A v \in Ratings :
               OkRatings(input, p) = {v} =>
                 LET rest == ProblemDifficulty(Without(input, p)) IN
                   /\ d.totalSolved = rest.totalSolved + 1
                   /\ \A b \in BucketNames :
                        d.buckets[b] = rest.buckets[b]
                          + (IF v # JsUndefined /\ b = RangeOf(v[2]) THEN 1 ELSE 0)

\* C27: a request suspends only on arrival, only when less than the minimum
\* interval has elapsed since the last call, and for a delay of at most the
\* minimum interval; a request that arrives with a method when at least the
\* interval has elapsed does not suspend.
C27_SuspendsOnlyWhenEarly ==
  [][\A r \in Reqs :
       /\ (pc'[r] = "sleeping" /\ pc[r] # "sleeping") =>
            /\ pc[r] = "sent"
            /\ clock - lastCallTs < minIntervalMs
            /\ wakeAt'[r] > clock
            /\ wakeAt'[r] - clock <= minIntervalMs
       /\ (pc[r] = "sent" /\ pc'[r] # "sent" /\ clock - lastCallTs >= minIntervalMs) =>
            pc'[r] # "sleeping"
       /\ (pc[r] = "sleeping" /\ pc'[r] # "sleeping") =>
            pc'[r] \in {"fetching", "responded", "threw", "returned"}]_vars

C27_Witness ==
  /\ \E r \in Reqs : pc[r] = "sleeping" /\ wakeAt[r] = lastCallTs + minIntervalMs
  /\ \E q \in Reqs : fetches[q] = 1 /\ pc[q] \in {"responded", "returned", "threw"}
  /\ lastCallTs > 0

\* C28: for strictly sequential requests whose fetches all resolve, the end
\* of a fetch is stored as the last-call timestamp, every upstream dispatch
\* starts at least the minimum interval after it, and the timestamp never
\* decreases.
C28_SequentialSpacing ==
  [][/\ \A r \in Reqs :
          /\ (pc[r] = "fetching" /\ pc'[r] # "fetching") => lastCallTs' = clock
          /\ fetches'[r] > fetches[r] => clock - lastCallTs >= minIntervalMs
     /\ lastCallTs' >= lastCallTs]_vars

C28_Witness ==
  /\ Len(dispatched) >= 2
  /\ lastCallTs > 0
  /\ \E r \in Reqs : pc[r] = "fetching" /\ clock - lastCallTs >= minIntervalMs

\* The text sub occurs in the text str.
Contains(str, sub) ==
  \E i \in 0..(Len(str) - Len(sub)) : SubSeq(str, i + 1, i + Len(sub)) = sub
Injected == {<<"apiKey">>, <<"time">>}

\* C29: in every signing the sorted list holds each key once, apiKey and
\* time with the injected values, the caller's other parameters whose value
\* is not undefined, and nothing else; a value the caller gave for apiKey or
\* time is neither in the query string nor in the signature base.
C29_InjectedValuesWin ==
  \A n \in 1..Len(output) :
    LET call == output[n]
        sorted == call.signed.sorted
        time == Digits(call.nowMs \div 1000)
        own == {i \in 1..Len(call.params) :
                  call.params[i][1] \notin Injected /\ call.params[i][2] # JsUndefined}
    IN  /\ {sorted[i] : i \in 1..Len(sorted)}
             = {<<call.params[i][1], JsString(call.params[i][2])>> : i \in own}
               \cup {<<(<<"apiKey">>), SignApiKey>>, <<(<<"time">>), time>>}
        /\ \A i, j \in 1..Len(sorted) : i # j => sorted[i][1] # sorted[j][1]
        /\ Contains(call.signed.query, <<"apiKey", "=">> \o SignApiKey)
        /\ Contains(call.signed.sigBase, <<"apiKey", "=">> \o SignApiKey)
        /\ Contains(call.signed.query, <<"time", "=">> \o time)
        /\ Contains(call.signed.sigBase, <<"time", "=">> \o time)
        /\ \A i \in 1..Len(call.params) :
             LET k == call.params[i][1]
                 v == call.params[i][2]
             IN  /\ (v = JsUndefined /\ k \notin Injected) =>
                       /\ ~Contains(call.signed.query, k \o <<"=">>)
                       /\ ~Contains(call.signed.sigBase, k \o <<"=">>)
                 /\ (k \in Injected /\ v # JsUndefined
                     /\ JsString(v) \notin {SignApiKey, time}) =>
                       /\ ~Contains(call.signed.query,
                                    k \o <<"=">> \o encodeURIComponent(JsString(v)))
                       /\ ~Contains(call.signed.sigBase, k \o <<"=">> \o JsString(v))

C29_Witness ==
  \E n \in 1..Len(output) :
    /\ \E i \in 1..Len(output[n].params) :
         /\ output[n].params[i][1] = <<"apiKey">>
         /\ output[n].params[i][2] = <<"string", <<"a", " ", "a">> >>
    /\ \E i \in 1..Len(output[n].params) :
         /\ output[n].params[i][1] = <<"handle">>
         /\ output[n].params[i][2] = JsUndefined

=============================================================================
